---- MODULE Spec2Model ----
(***************************************************************************)
(* Model of sentiment_dashboard_dark.py: one Streamlit script run (a       *)
(* "refresh") fetches five providers, renders four indicator cards, runs   *)
(* the two signal classifiers and renders the meme-stock radar.            *)
(*                                                                         *)
(* Python values are records [kind, val, text]: kind is the Python type    *)
(* ("int", "float", "str", "None"), so that a comparison applied to None   *)
(* or to a str is a TypeError here as it is in Python.  Readings are kept  *)
(* in whole units: every cutoff in the script is a whole number, so a      *)
(* reading is below, at or above a cutoff exactly as its neighbours are.   *)
(***************************************************************************)
EXTENDS Integers, Sequences, FiniteSets, TLC

VARIABLES pc, feed, vix_val, rsi_val, trends_val, news_val, news_lbl, memes,
          attempts, failed, cards, buffett_card, tomlee_card, meme_card

vars == <<pc, feed, vix_val, rsi_val, trends_val, news_val, news_lbl, memes,
          attempts, failed, cards, buffett_card, tomlee_card, meme_card>>

\* ---------------------------------------------------------------- values

None == [kind |-> "None", val |-> 0, text |-> ""]

PyInt(n) == [kind |-> "int", val |-> n, text |-> ""]

PyFloat(n) == [kind |-> "float", val |-> n, text |-> ""]

PyStr(s) == [kind |-> "str", val |-> 0, text |-> s]

\* An exception leaving a function (no value is returned).
Raise == [kind |-> "raise", val |-> 0, text |-> ""]

RateLimited == PyStr("Rate Limited")

TypeError == "TypeError"

Bool(b) == IF b THEN "True" ELSE "False"

IsNumber(x) == x.kind \in {"int", "float"}

\* x > n, x < n, x >= n, x <= n with n an int literal: TypeError unless x is a number.
Gt(x, n) == IF IsNumber(x) THEN Bool(x.val > n) ELSE TypeError

Lt(x, n) == IF IsNumber(x) THEN Bool(x.val < n) ELSE TypeError

Ge(x, n) == IF IsNumber(x) THEN Bool(x.val >= n) ELSE TypeError

Le(x, n) == IF IsNumber(x) THEN Bool(x.val <= n) ELSE TypeError

\* x is not None
IsNotNone(x) == Bool(x.kind # "None")

\* isinstance(x, int)
IsInstanceInt(x) == Bool(x.kind = "int")

\* x == s and x != s with s a str literal: never raise.
EqStr(x, s) == Bool(x.kind = "str" /\ x.text = s)

NeStr(x, s) == Bool(~(x.kind = "str" /\ x.text = s))

\* a and b, short-circuit: b is not evaluated (cannot raise) when a is false.
And(a, b) == IF a = "False" THEN "False" ELSE IF a = TypeError THEN TypeError ELSE b

And3(a, b, c) == And(a, And(b, c))

\* a or b, short-circuit.
Or(a, b) == IF a = "True" THEN "True" ELSE IF a = TypeError THEN TypeError ELSE b

\* bool(x): None, 0 and "" are falsy.
Truthy(x) ==
  Bool(CASE x.kind = "None" -> FALSE
         [] x.kind = "str" -> x.text # ""
         [] OTHER -> x.val # 0)

\* "if c: return v", followed by the rest of the function body.
IfReturn(c, v, rest) ==
  IF c = TypeError THEN TypeError ELSE IF c = "True" THEN v ELSE rest

\* "if c: n += 1" as the amount added (c has not raised).
Inc(c) == IF c = "True" THEN 1 ELSE 0

\* "x = v" followed by Body(x): v is evaluated once and bound to x.
Let(v, Body(_)) == CHOOSE r \in {Body(x) : x \in {v}} : TRUE

\* ----------------------------------------------------- signal classifiers

BuffettBuy == "[green] Buffett: Really Good Time to Buy (Be Greedy When Others Are Fearful)"

BuffettAccumulate == "[yellow] Buffett: Good Time to Accumulate, Be Patient"

BuffettWait == "[white] Buffett: Wait, Stay Patient (No Edge)"

BuffettOverheated == "[red] Buffett: Market Overheated, Wait for Pullback"

\* The text of the final return statement.
BuffettDefault == "[white] Buffett: Wait, Stay Patient (No Edge)"

\* fear_count after the three increments; -1 when one of the conditions raised.
buffett_fear_count(vix, trends, news) ==
  LET c1 == And(IsNotNone(vix), Gt(vix, 28))
      c2 == And3(IsNotNone(trends), IsInstanceInt(trends), Gt(trends, 80))
      c3 == And(IsNotNone(news), Lt(news, 35))
  IN IF TypeError \in {c1, c2, c3} THEN -1 ELSE Inc(c1) + Inc(c2) + Inc(c3)

\* Faulty variant: the first rule's cutoff taken as inclusive (rsi <= 35).
buffett_rule1_inclusive(rsi, fc) == And3(IsNotNone(rsi), Le(rsi, 35), Bool(fc >= 2))

buffett_rule1(rsi, fc) == And3(IsNotNone(rsi), Lt(rsi, 35), Bool(fc >= 2))

buffett_rule2(rsi, fc) == And3(IsNotNone(rsi), Lt(rsi, 40), Bool(fc >= 1))

buffett_rule3(vix, rsi, news) ==
  And3(And3(IsNotNone(rsi), Ge(rsi, 40), Le(rsi, 60)),
       And3(IsNotNone(vix), Gt(vix, 16), Lt(vix, 28)),
       And3(IsNotNone(news), Ge(news, 35), Le(news, 65)))

\* Faulty variant: the overheated rule without the 'trends != "Rate Limited"' guard.
buffett_rule4_unguarded(rsi, trends, news) ==
  And3(And(IsNotNone(rsi), Gt(rsi, 70)),
       And(IsNotNone(news), Gt(news, 60)),
       And(IsNotNone(trends), Lt(trends, 20)))

buffett_rule4(rsi, trends, news) ==
  And3(And(IsNotNone(rsi), Gt(rsi, 70)),
       And(IsNotNone(news), Gt(news, 60)),
       And3(IsNotNone(trends), NeStr(trends, "Rate Limited"), Lt(trends, 20)))

\* Faulty variant: the accumulate rule tried before the strong-buy rule.
buffett_style_signal_accumulate_first(vix, rsi, trends, news) ==
  LET fear_count == buffett_fear_count(vix, trends, news)
  IN IF fear_count < 0 THEN TypeError
     ELSE IfReturn(buffett_rule2(rsi, fear_count), BuffettAccumulate,
          IfReturn(buffett_rule1(rsi, fear_count), BuffettBuy,
          IfReturn(buffett_rule3(vix, rsi, news), BuffettWait,
          IfReturn(buffett_rule4(rsi, trends, news), BuffettOverheated,
          BuffettDefault))))

buffett_style_signal(vix, rsi, trends, news) ==
  LET fear_count == buffett_fear_count(vix, trends, news)
  IN IF fear_count < 0 THEN TypeError
     ELSE IfReturn(buffett_rule1(rsi, fear_count), BuffettBuy,
          IfReturn(buffett_rule2(rsi, fear_count), BuffettAccumulate,
          IfReturn(buffett_rule3(vix, rsi, news), BuffettWait,
          IfReturn(buffett_rule4(rsi, trends, news), BuffettOverheated,
          BuffettDefault))))

TomLeeBuy == "[green] Tom Lee: Good Time to Buy (Buy the Dip Mentality)"

TomLeeTooHot == "[red] Tom Lee: Even Tom Lee says: Hold Off, Too Hot!"

TomLeeStay == "[white] Tom Lee: Stay Invested or Accumulate Slowly"

\* Faulty variant: the volatility cutoff taken as inclusive (vix >= 22).
tomlee_bullish_score_inclusive(vix, rsi, trends, news) ==
  LET c1 == And(IsNotNone(vix), Ge(vix, 22))
      c2 == And(IsNotNone(rsi), Lt(rsi, 45))
      c3 == And3(IsNotNone(trends), IsInstanceInt(trends), Gt(trends, 60))
      c4 == And(IsNotNone(news), Lt(news, 50))
  IN IF TypeError \in {c1, c2, c3, c4} THEN -1
     ELSE Inc(c1) + Inc(c2) + Inc(c3) + Inc(c4)

\* bullish_score after the four increments; -1 when one of the conditions raised.
tomlee_bullish_score(vix, rsi, trends, news) ==
  LET c1 == And(IsNotNone(vix), Gt(vix, 22))
      c2 == And(IsNotNone(rsi), Lt(rsi, 45))
      c3 == And3(IsNotNone(trends), IsInstanceInt(trends), Gt(trends, 60))
      c4 == And(IsNotNone(news), Lt(news, 50))
  IN IF TypeError \in {c1, c2, c3, c4} THEN -1
     ELSE Inc(c1) + Inc(c2) + Inc(c3) + Inc(c4)

tomlee_too_hot(vix, rsi, news) ==
  And3(And(IsNotNone(vix), Lt(vix, 14)),
       And(IsNotNone(rsi), Gt(rsi, 70)),
       And(IsNotNone(news), Gt(news, 60)))

tomlee_signal(vix, rsi, trends, news) ==
  LET bullish_score == tomlee_bullish_score(vix, rsi, trends, news)
  IN IF bullish_score < 0 THEN TypeError
     ELSE IfReturn(Bool(bullish_score >= 2), TomLeeBuy,
          IfReturn(tomlee_too_hot(vix, rsi, news), TomLeeTooHot,
          TomLeeStay))

\* ------------------------------------------------- ticker mention extractor

Upper ==
  {"A", "B", "C", "D", "E", "F", "G", "H", "I", "J", "K", "L", "M", "N", "O", "P", "Q", "R", "S", "T", "U", "V", "W", "X", "Y", "Z"}

Lower ==
  {"a", "b", "c", "d", "e", "f", "g", "h", "i", "j", "k", "l", "m", "n", "o", "p", "q", "r", "s", "t", "u", "v", "w", "x", "y", "z"}

Digits == {"0", "1", "2", "3", "4", "5", "6", "7", "8", "9"}

\* \w of the re module, on the characters the model's texts use.
IsWordChar(c) == c \in Upper \cup Lower \cup Digits \cup {"_"}

\* str.isalpha()
IsAlpha(s) == Len(s) > 0 /\ \A i \in 1..Len(s) : s[i] \in Upper \cup Lower

exclude ==
  {<<"U", "S", "D">>,
   <<"W", "S", "B">>,
   <<"E", "T", "F">>,
   <<"I", "P", "O">>,
   <<"S", "P", "A", "C">>,
   <<"C", "E", "O">>,
   <<"D", "D">>,
   <<"F", "O", "M", "O">>,
   <<"A", "T", "H">>,
   <<"L", "O", "L">>,
   <<"T", "O", "S">>}


\* [A-Z]{2,5}\b at position j of t: the length matched (greedy, backtracking
\* from 5 letters down to 2), 0 when there is no match there.
LettersAt(t, j) ==
  LET fits(k) == /\ j + k - 1 <= Len(t)
                 /\ \A i \in j..(j + k - 1) : t[i] \in Upper
                 /\ (j + k - 1 = Len(t) \/ ~IsWordChar(t[j + k]))
      ks == {k \in 2..5 : fits(k)}
  IN IF ks = {} THEN 0 ELSE CHOOSE k \in ks : \A m \in ks : m <= k

\* pat.findall(t), pat = \$?([A-Z]{2,5})\b: the group of each match, left to
\* right; scan[i] is the scan from position i on, resuming where a match ended.
findall(t) ==
  LET scan[i \in 1..(Len(t) + 1)] ==
        IF i > Len(t) THEN <<>>
        ELSE LET withDollar == IF t[i] = "$" THEN LettersAt(t, i + 1) ELSE 0
                 start == IF withDollar > 0 THEN i + 1 ELSE i
                 k == IF withDollar > 0 THEN withDollar ELSE LettersAt(t, i)
             IN IF k > 0 THEN <<SubSeq(t, start, start + k - 1)>> \o scan[start + k]
                ELSE scan[i + 1]
  IN scan[1]

\* The inner loop over one text: the matches kept.
KeptMatches(text) ==
  SelectSeq(findall(text), LAMBDA match : match \notin exclude /\ IsAlpha(match))

\* posts.append(submission.title + " " + (submission.selftext or "")); an absent
\* selftext is the empty text.
PostText(submission) == submission.title \o <<" ">> \o submission.selftext

\* mentions after the loops over posts[1..n].
RECURSIVE Mentions(_, _)
Mentions(posts, n) ==
  IF n = 0 THEN <<>> ELSE Mentions(posts, n - 1) \o KeptMatches(PostText(posts[n]))

\* Counter(mentions[1..n]) as its items in insertion (first-encounter) order.
RECURSIVE Counter(_, _)
Counter(mentions, n) ==
  IF n = 0 THEN <<>>
  ELSE Let(Counter(mentions, n - 1), LAMBDA c :
         LET hit == {i \in 1..Len(c) : c[i][1] = mentions[n]}
         IN IF hit = {} THEN Append(c, <<mentions[n], 1>>)
            ELSE [i \in 1..Len(c) |-> IF i \in hit THEN <<c[i][1], c[i][2] + 1>> ELSE c[i]])

\* sorted(items, key=itemgetter(1), reverse=True): stable, so equal counts keep
\* their order in items.
RECURSIVE SortedByCountDesc(_)
SortedByCountDesc(items) ==
  IF items = <<>> THEN <<>>
  ELSE LET top == CHOOSE i \in 1..Len(items) :
                    /\ \A j \in 1..Len(items) : items[j][2] <= items[i][2]
                    /\ \A j \in 1..(i - 1) : items[j][2] < items[i][2]
           others == [j \in 1..(Len(items) - 1) |-> IF j < top THEN items[j] ELSE items[j + 1]]
       IN <<items[top]>> \o Let(others, LAMBDA rest : SortedByCountDesc(rest))

\* Faulty variant: ties ranked last-encountered first (an unstable, reversed sort).
most_common_unstable(items, n) ==
  LET r == [i \in 1..Len(items) |-> items[Len(items) + 1 - i]]
      s == SortedByCountDesc(r)
  IN SubSeq(s, 1, IF Len(s) < n THEN Len(s) ELSE n)

\* Counter.most_common(n) = heapq.nlargest(n, items, key=itemgetter(1)), which is
\* sorted(items, key=..., reverse=True)[:n].
most_common(items, n) ==
  LET s == SortedByCountDesc(items)
  IN SubSeq(s, 1, IF Len(s) < n THEN Len(s) ELSE n)

\* The two limit arguments: the default and the one the script passes.
RedditLimit == 350

\* reddit.subreddit("wallstreetbets").hot(limit=limit): at most limit submissions.
Hot(listing, limit) == SubSeq(listing, 1, IF Len(listing) < limit THEN Len(listing) ELSE limit)

\* fetch_reddit_meme_tickers: the provider's answer f is a listing of
\* submissions, or an exception raised inside the try block.  The result is
\* [raised, value]: raised when an exception leaves the function.
fetch_reddit_meme_tickers(f, limit) ==
  LET body ==
        IF f.status # "ok" THEN [raised |-> TRUE, value |-> <<>>]
        ELSE Let(Hot(f.posts, limit), LAMBDA posts :
             Let(Mentions(posts, Len(posts)), LAMBDA mentions :
             Let(Counter(mentions, Len(mentions)), LAMBDA counts :
               [raised |-> FALSE, value |-> most_common(counts, 5)])))
  IN IF body.raised THEN [raised |-> FALSE, value |-> <<>>] ELSE body

\* Sample submissions of the hot listing.
\* title "GME to the moon, also check $AAPL and DD", selftext ""
PostMoon ==
  [title |-> <<"G", "M", "E", " ", "t", "o", " ", "t", "h", "e", " ", "m", "o", "o", "n", ",", " ", "a", "l", "s", "o", " ", "c", "h", "e", "c", "k", " ", "$", "A", "A", "P", "L", " ", "a", "n", "d", " ", "D", "D">>,
   selftext |-> <<>>]

\* title "TSLA NVDA AMC", selftext "GME"
PostList ==
  [title |-> <<"T", "S", "L", "A", " ", "N", "V", "D", "A", " ", "A", "M", "C">>,
   selftext |-> <<"G", "M", "E">>]

\* title "AMAZING gains BB", selftext "$PLTR+GME"
PostGains ==
  [title |-> <<"A", "M", "A", "Z", "I", "N", "G", " ", "g", "a", "i", "n", "s", " ", "B", "B">>,
   selftext |-> <<"$", "P", "L", "T", "R", "+", "G", "M", "E">>]

\* title "MOON", selftext "aBC AB1 YOLO_X $$TSLA"
PostEdge ==
  [title |-> <<"M", "O", "O", "N">>,
   selftext |-> <<"a", "B", "C", " ", "A", "B", "1", " ", "Y", "O", "L", "O", "_", "X", " ", "$", "$", "T", "S", "L", "A">>]

\* title "", selftext ""
PostEmpty ==
  [title |-> <<>>,
   selftext |-> <<>>]

\* title "DD DD GME", selftext "WSB ETF"
PostJargon ==
  [title |-> <<"D", "D", " ", "D", "D", " ", "G", "M", "E">>,
   selftext |-> <<"W", "S", "B", " ", "E", "T", "F">>]


PostPool == {PostMoon, PostList, PostGains, PostEdge, PostEmpty, PostJargon}

\* ------------------------------------------------------- provider fetches

Providers == {"vix", "rsi", "trends", "news", "reddit"}

\* A provider's answer to one request: status "ok" with a reading, or an
\* exception, of which has429 and hasRate say what str(e) contains.
Response(status, val, has429, hasRate) ==
  [status |-> status, val |-> val, has429 |-> has429, hasRate |-> hasRate]

\* try: ... round(df["Close"].iloc[-1], 2)   except: return None
fetch_vix(resp) ==
  LET body == IF resp.status = "ok" THEN PyFloat(resp.val) ELSE Raise
  IN IF body = Raise THEN None ELSE body

\* try: ... round(df["rsi"].iloc[-1], 2)   except: return None
fetch_rsi(resp) ==
  LET body == IF resp.status = "ok" THEN PyFloat(resp.val) ELSE Raise
  IN IF body = Raise THEN None ELSE body

\* Faulty variant: only a rate-limit error is handled, any other is raised again.
fetch_google_trends_reraise(resp) ==
  LET body == IF resp.status = "ok" THEN PyInt(resp.val) ELSE Raise
  IN IF body = Raise
     THEN IF resp.has429 \/ resp.hasRate THEN RateLimited ELSE Raise
     ELSE body

\* try: ... int(df[term].iloc[-1])
\* except Exception as e: "Rate Limited" if "429" in str(e) or "rate" in str(e).lower()
fetch_google_trends(resp) ==
  LET body == IF resp.status = "ok" THEN PyInt(resp.val) ELSE Raise
  IN IF body = Raise
     THEN IF resp.has429 \/ resp.hasRate THEN RateLimited ELSE None
     ELSE body

Min(a, b) == IF a < b THEN a ELSE b

Max(a, b) == IF a > b THEN a ELSE b

\* An answer of the news provider: no credential, an exception, or a page of
\* articles, of which bears have a bearish keyword in the title and bulls a
\* bullish one (a title may have both).
NewsResponse(status, bears, bulls, has429, hasRateLimited) ==
  [status |-> status, bears |-> bears, bulls |-> bulls,
   has429 |-> has429, hasRateLimited |-> hasRateLimited]

\* fetch_news_sentiment: the pair (score, lbl) as [score, lbl].
fetch_news_sentiment(resp) ==
  IF resp.status = "no_key" THEN [score |-> None, lbl |-> "No API Key"]
  ELSE IF resp.status = "ok"
  THEN LET b_score == resp.bears
           u_score == resp.bulls
           score == Max(0, Min(100, 50 + (u_score - b_score) * 2))
           lbl == IF score > 60 THEN "Bullish" ELSE IF score < 40 THEN "Bearish" ELSE "Mixed"
       IN [score |-> PyInt(score), lbl |-> lbl]
  ELSE IF resp.hasRateLimited \/ resp.has429
       THEN [score |-> None, lbl |-> "Rate Limited"]
       ELSE [score |-> None, lbl |-> "Error"]

\* get_price_change: "ok" is a history of two closes or more, "short" one of
\* fewer, anything else an exception (except: pass).
get_price_change(resp) ==
  IF resp.status = "ok" THEN PyFloat(resp.val) ELSE None

\* ---------------------------------------------------------------- rendering

\* colored_badge(value, label): the badge's class and text.  The news branch
\* reads the module-level news_lbl.
colored_badge(value, label) ==
  IfReturn(Or(Bool(value.kind = "None"), EqStr(value, "Rate Limited")), "badge-red N/A",
    IF label = "vix"
    THEN IfReturn(Gt(value, 30), "badge-red High",
         IfReturn(Gt(value, 20), "badge-yellow Elevated", "badge-green Calm"))
    ELSE IF label = "rsi"
    THEN IfReturn(Gt(value, 70), "badge-red Overbought",
         IfReturn(Lt(value, 35), "badge-blue Oversold", "badge-green Normal"))
    ELSE IF label = "google"
    THEN IfReturn(EqStr(value, "Rate Limited"), "badge-red Rate Limited",
         IfReturn(Gt(value, 70), "badge-red High",
         IfReturn(Gt(value, 30), "badge-yellow Moderate", "badge-green Low")))
    ELSE IF label = "news"
    THEN IF news_lbl = "Bullish" THEN "badge-green Bullish"
         ELSE IF news_lbl = "Bearish" THEN "badge-red Bearish"
         ELSE IF news_lbl = "Rate Limited" THEN "badge-red Rate Limited"
         ELSE "badge-yellow Mixed"
    ELSE "")

\* f"{x if x is not None else '--'}"
BigNum(x) == IF x.kind = "None" THEN PyStr("--") ELSE x

\* Arithmetic and min/max against numbers: TypeError unless x is a number.
Arith(x) == IF IsNumber(x) THEN "True" ELSE TypeError

\* One indicator card: the number shown, the badge, whether the bar is drawn
\* and whether the "Rate Limited" caption is.
Card(num, badge, bar, caption) ==
  [num |-> num, badge |-> badge, bar |-> bar,
   caption |-> IF bar = "False" THEN caption ELSE "False"]

vix_card(v) == Card(BigNum(v), colored_badge(v, "vix"), And(IsNotNone(v), Arith(v)), "False")

rsi_card(r) == Card(BigNum(r), colored_badge(r, "rsi"), And(IsNotNone(r), Arith(r)), "False")

trends_card(t) ==
  Card(BigNum(t), colored_badge(t, "google"),
       And3(Truthy(t), NeStr(t, "Rate Limited"), Arith(t)),
       EqStr(t, "Rate Limited"))

news_card(n) ==
  Card(BigNum(n), colored_badge(n, "news"),
       And3(IsNotNone(n), Bool(news_lbl # "Rate Limited"), Arith(n)),
       Bool(news_lbl = "Rate Limited"))

CardRaised(c) == TypeError \in {c.badge, c.bar, c.caption}

NoCard == [num |-> None, badge |-> "", bar |-> "False", caption |-> "False"]

TopTickersCaption == "Top tickers in r/wallstreetbets (last ~24hr). Not investment advice."

NoTickersCaption == "No trending meme tickers found. WSB may be quiet or Reddit API was rate-limited."

\* One line of the radar: entry i (0-based) of memes and its price answer.
MemeLine(i, entry, resp) ==
  LET pct == get_price_change(resp)
  IN [ticker |-> entry[1], n |-> entry[2],
      change |-> IF pct.kind # "None" THEN pct ELSE PyStr(""),
      green |-> And(Truthy(pct), Gt(pct, 0)),
      fire |-> And3(Bool(i = 0), Truthy(pct), Gt(pct, 10))]

\* The Meme Stock Radar card for the list m, prices[i] answering entry i.
MemeCard(m, prices) ==
  IF m # <<>>
  THEN [lines |-> [i \in 1..Len(m) |-> MemeLine(i - 1, m[i], prices[i])],
        caption |-> TopTickersCaption]
  ELSE [lines |-> <<>>, caption |-> NoTickersCaption]

NoMemeCard == [lines |-> <<>>, caption |-> ""]

\* ------------------------------------------------------------------ bounds

\* Readings within Margin of each cutoff are classified.
Margin == 1

\* Submissions in a hot listing handed to the extractor.
MaxPosts == 3

\* Articles on a page of the news provider (page_size is 25 in the script).
MaxArts == 6

Near(c) == (c - Margin)..(c + Margin)

VixInputs ==
  {None} \cup {PyFloat(v) : v \in Near(14) \cup Near(16) \cup Near(22) \cup Near(28)}

RsiInputs ==
  {None} \cup {PyFloat(v) : v \in {30} \cup Near(35) \cup Near(40) \cup Near(45)
                                   \cup Near(60) \cup Near(70)}

TrendsInputs ==
  {None, RateLimited} \cup {PyInt(v) : v \in Near(20) \cup Near(60) \cup Near(80)}

NewsInputs ==
  {None} \cup {PyInt(v) : v \in Near(35) \cup Near(50) \cup Near(60) \cup Near(65)}

Failure(has429, hasRate) == Response("error", 0, has429, hasRate)

VixResponses == {Response("ok", v, FALSE, FALSE) : v \in {13, 25, 30}} \cup {Failure(FALSE, FALSE)}

RsiResponses == {Response("ok", v, FALSE, FALSE) : v \in {30, 50, 75}} \cup {Failure(FALSE, FALSE)}

TrendsResponses ==
  {Response("ok", v, FALSE, FALSE) : v \in {0, 10, 90}}
    \cup {Failure(a, b) : a \in BOOLEAN, b \in BOOLEAN}

NewsResponses ==
  {NewsResponse("ok", b, u, FALSE, FALSE) : b \in 0..MaxArts, u \in 0..MaxArts}
    \cup {NewsResponse("no_key", 0, 0, FALSE, FALSE)}
    \cup {NewsResponse("error", 0, 0, a, b) : a \in BOOLEAN, b \in BOOLEAN}

PriceResponses ==
  {Response("ok", v, FALSE, FALSE) : v \in {-3, 0, 12}}
    \cup {Response("short", 0, FALSE, FALSE), Failure(FALSE, FALSE)}

\* What the social-post provider answers: a hot listing, a rate-limit
\* response or an HTTP 500 (both raised by the client as exceptions).
Listing(posts) == [status |-> "ok", posts |-> posts]

RateLimitResponse == [status |-> "rate_limited", posts |-> <<>>]

ServerErrorResponse == [status |-> "http500", posts |-> <<>>]

RefreshFeeds ==
  {Listing(<<>>), Listing(<<PostJargon>>), Listing(<<PostMoon>>),
   RateLimitResponse, ServerErrorResponse}

Batches == UNION {[1..n -> PostPool] : n \in 0..MaxPosts}

\* ----------------------------------------------------------------- actions

\* A name not yet bound in this run of the script.
Unset == [kind |-> "unset", val |-> 0, text |-> ""]

NoCards == [vix |-> NoCard, rsi |-> NoCard, trends |-> NoCard, news |-> NoCard]

\* The script starts: nothing fetched, nothing rendered.
ScriptStart ==
  /\ pc = "fetch_vix"
  /\ vix_val = Unset /\ rsi_val = Unset /\ trends_val = Unset
  /\ news_val = Unset /\ news_lbl = "" /\ memes = <<>>
  /\ attempts = [p \in Providers |-> 0]
  /\ failed = [p \in Providers |-> FALSE]
  /\ cards = NoCards
  /\ buffett_card = "" /\ tomlee_card = ""
  /\ meme_card = NoMemeCard

Init == feed \in RefreshFeeds /\ ScriptStart

Attempt(p, resp) ==
  /\ attempts' = [attempts EXCEPT ![p] = @ + 1]
  /\ failed' = [failed EXCEPT ![p] = resp.status # "ok"]

\* vix_val = fetch_vix()
FetchVix ==
  /\ pc = "fetch_vix"
  /\ \E resp \in VixResponses :
       /\ vix_val' = fetch_vix(resp)
       /\ pc' = IF vix_val' = Raise THEN "crashed" ELSE "fetch_rsi"
       /\ Attempt("vix", resp)
  /\ UNCHANGED <<feed, rsi_val, trends_val, news_val, news_lbl, memes, cards,
                 buffett_card, tomlee_card, meme_card>>

\* rsi_val = fetch_rsi()
FetchRsi ==
  /\ pc = "fetch_rsi"
  /\ \E resp \in RsiResponses :
       /\ rsi_val' = fetch_rsi(resp)
       /\ pc' = IF rsi_val' = Raise THEN "crashed" ELSE "fetch_trends"
       /\ Attempt("rsi", resp)
  /\ UNCHANGED <<feed, vix_val, trends_val, news_val, news_lbl, memes, cards,
                 buffett_card, tomlee_card, meme_card>>

\* trends_val = fetch_google_trends()
FetchGoogleTrends ==
  /\ pc = "fetch_trends"
  /\ \E resp \in TrendsResponses :
       /\ trends_val' = fetch_google_trends(resp)
       /\ pc' = IF trends_val' = Raise THEN "crashed" ELSE "fetch_news"
       /\ Attempt("trends", resp)
  /\ UNCHANGED <<feed, vix_val, rsi_val, news_val, news_lbl, memes, cards,
                 buffett_card, tomlee_card, meme_card>>

\* news_val, news_lbl = fetch_news_sentiment()
FetchNewsSentiment ==
  /\ pc = "fetch_news"
  /\ \E resp \in NewsResponses :
       /\ LET r == fetch_news_sentiment(resp)
          IN /\ news_val' = r.score
             /\ news_lbl' = r.lbl
             /\ pc' = IF r.score = Raise THEN "crashed" ELSE "fetch_reddit"
       /\ Attempt("news", resp)
  /\ UNCHANGED <<feed, vix_val, rsi_val, trends_val, memes, cards,
                 buffett_card, tomlee_card, meme_card>>

\* memes = fetch_reddit_meme_tickers(limit=350)
FetchRedditMemeTickers ==
  /\ pc = "fetch_reddit"
  /\ LET r == fetch_reddit_meme_tickers(feed, RedditLimit)
     IN /\ memes' = r.value
        /\ pc' = IF r.raised THEN "crashed" ELSE "render_cards"
  /\ Attempt("reddit", feed)
  /\ UNCHANGED <<feed, vix_val, rsi_val, trends_val, news_val, news_lbl, cards,
                 buffett_card, tomlee_card, meme_card>>

\* The four indicator cards (with st.container(): ...).
RenderIndicatorCards ==
  /\ pc = "render_cards"
  /\ cards' = [vix |-> vix_card(vix_val), rsi |-> rsi_card(rsi_val),
               trends |-> trends_card(trends_val), news |-> news_card(news_val)]
  /\ pc' = IF \E k \in DOMAIN cards' : CardRaised(cards'[k])
           THEN "crashed" ELSE "render_buffett"
  /\ UNCHANGED <<feed, vix_val, rsi_val, trends_val, news_val, news_lbl, memes,
                 attempts, failed, buffett_card, tomlee_card, meme_card>>

\* The Buffett card: the verdict of buffett_style_signal is rendered.
RenderBuffettCard ==
  /\ pc = "render_buffett"
  /\ buffett_card' = buffett_style_signal(vix_val, rsi_val, trends_val, news_val)
  /\ pc' = IF buffett_card' = TypeError THEN "crashed" ELSE "render_tomlee"
  /\ UNCHANGED <<feed, vix_val, rsi_val, trends_val, news_val, news_lbl, memes,
                 attempts, failed, cards, tomlee_card, meme_card>>

\* The Tom Lee card: the verdict of tomlee_signal is rendered.
RenderTomLeeCard ==
  /\ pc = "render_tomlee"
  /\ tomlee_card' = tomlee_signal(vix_val, rsi_val, trends_val, news_val)
  /\ pc' = IF tomlee_card' = TypeError THEN "crashed" ELSE "render_memes"
  /\ UNCHANGED <<feed, vix_val, rsi_val, trends_val, news_val, news_lbl, memes,
                 attempts, failed, cards, buffett_card, meme_card>>

MemeCardRaised(c) ==
  \E i \in 1..Len(c.lines) : TypeError \in {c.lines[i].green, c.lines[i].fire}

\* The Meme Stock Radar card, then the disclaimer and the refresh button.
RenderMemeCard ==
  /\ pc = "render_memes"
  /\ \E prices \in [1..Len(memes) -> PriceResponses] :
       meme_card' = MemeCard(memes, prices)
  /\ pc' = IF MemeCardRaised(meme_card') THEN "crashed" ELSE "done"
  /\ UNCHANGED <<feed, vix_val, rsi_val, trends_val, news_val, news_lbl, memes,
                 attempts, failed, cards, buffett_card, tomlee_card>>

\* if st.button("Refresh Data"): st.rerun() -- the script runs again from the top.
ClickRefresh ==
  /\ pc = "done"
  /\ feed' \in RefreshFeeds
  /\ pc' = "fetch_vix"
  /\ vix_val' = Unset /\ rsi_val' = Unset /\ trends_val' = Unset
  /\ news_val' = Unset /\ news_lbl' = "" /\ memes' = <<>>
  /\ attempts' = [p \in Providers |-> 0]
  /\ failed' = [p \in Providers |-> FALSE]
  /\ cards' = NoCards
  /\ buffett_card' = "" /\ tomlee_card' = ""
  /\ meme_card' = NoMemeCard

\* One run of the script, top to bottom.
RunScript ==
  \/ FetchVix
  \/ FetchRsi
  \/ FetchGoogleTrends
  \/ FetchNewsSentiment
  \/ FetchRedditMemeTickers
  \/ RenderIndicatorCards
  \/ RenderBuffettCard
  \/ RenderTomLeeCard
  \/ RenderMemeCard

Next == RunScript \/ ClickRefresh

Spec == Init /\ [][Next]_vars

\* The script runs sequentially to its end once started; a click on the
\* refresh button is the user's and is not forced.
FairSpec == Spec /\ WF_vars(RunScript)

\* The classifiers on every combination of readings near the cutoffs: the
\* script has fetched and is about to render the two signal cards.
InitClassify ==
  /\ pc = "render_buffett"
  /\ feed = ServerErrorResponse
  /\ memes = <<>>
  /\ vix_val \in VixInputs
  /\ rsi_val \in RsiInputs
  /\ trends_val \in TrendsInputs
  /\ news_val \in NewsInputs
  /\ news_lbl = IF news_val = None THEN "Error"
                ELSE IF news_val.val > 60 THEN "Bullish"
                ELSE IF news_val.val < 40 THEN "Bearish" ELSE "Mixed"
  /\ attempts = [p \in Providers |-> 1]
  /\ failed = [p \in Providers |->
                 CASE p = "vix" -> vix_val = None
                   [] p = "rsi" -> rsi_val = None
                   [] p = "trends" -> trends_val \in {None, RateLimited}
                   [] p = "news" -> news_val = None
                   [] OTHER -> TRUE]
  /\ cards = [vix |-> vix_card(vix_val), rsi |-> rsi_card(rsi_val),
              trends |-> trends_card(trends_val), news |-> news_card(news_val)]
  /\ buffett_card = "" /\ tomlee_card = ""
  /\ meme_card = NoMemeCard

NextClassify == RenderBuffettCard \/ RenderTomLeeCard

SpecClassify == InitClassify /\ [][NextClassify]_vars

\* The extractor on every hot listing of at most MaxPosts sample submissions:
\* the four indicator fetches are over (here all failed).
InitExtract ==
  /\ pc = "fetch_reddit"
  /\ feed \in {Listing(b) : b \in Batches}
  /\ vix_val = None /\ rsi_val = None /\ trends_val = None
  /\ news_val = None /\ news_lbl = "Error" /\ memes = <<>>
  /\ attempts = [p \in Providers |-> IF p = "reddit" THEN 0 ELSE 1]
  /\ failed = [p \in Providers |-> p # "reddit"]
  /\ cards = NoCards
  /\ buffett_card = "" /\ tomlee_card = ""
  /\ meme_card = NoMemeCard

NextExtract == FetchRedditMemeTickers \/ RenderIndicatorCards

SpecExtract == InitExtract /\ [][NextExtract]_vars

\* ------------------------------------------------------------------ claims

\* The readings as the classifiers' contract sees them: x is a number below
\* (above, ...) n; an unavailable reading meets no condition.
Below(x, n) == x.kind \in {"int", "float"} /\ x.val < n

Above(x, n) == x.kind \in {"int", "float"} /\ x.val > n

Within(x, lo, hi) == x.kind \in {"int", "float"} /\ lo <= x.val /\ x.val <= hi

Unavailable(x) == x = None \/ x = RateLimited

\* Number of fear conditions met among vix > 28, trends > 80, news < 35.
FearCount ==
  Cardinality({c \in {"vix", "trends", "news"} :
                 \/ c = "vix" /\ Above(vix_val, 28)
                 \/ c = "trends" /\ trends_val.kind = "int" /\ Above(trends_val, 80)
                 \/ c = "news" /\ Below(news_val, 35)})

\* Number of bullish conditions met among vix > 22, rsi < 45, trends > 60, news < 50.
BullishCount ==
  Cardinality({c \in {"vix", "rsi", "trends", "news"} :
                 \/ c = "vix" /\ Above(vix_val, 22)
                 \/ c = "rsi" /\ Below(rsi_val, 45)
                 \/ c = "trends" /\ trends_val.kind = "int" /\ Above(trends_val, 60)
                 \/ c = "news" /\ Below(news_val, 50)})

StrongBuyRule == Below(rsi_val, 35) /\ FearCount >= 2

AccumulateRule == Below(rsi_val, 40) /\ FearCount >= 1

NeutralBandRule ==
  /\ Within(rsi_val, 40, 60)
  /\ Above(vix_val, 16) /\ Below(vix_val, 28)
  /\ Within(news_val, 35, 65)

OverheatedRule == Above(rsi_val, 70) /\ Above(news_val, 60) /\ Below(trends_val, 20)

TooHotRule == Below(vix_val, 14) /\ Above(rsi_val, 70) /\ Above(news_val, 60)

BuffettRendered == buffett_card # ""

TomLeeRendered == tomlee_card # ""

\* The verdicts of the four ordered rules of style A.
BuffettRuleVerdicts == {BuffettBuy, BuffettAccumulate, BuffettWait, BuffettOverheated}

BuffettVerdicts == BuffettRuleVerdicts \cup {BuffettDefault}

TomLeeVerdicts == {TomLeeBuy, TomLeeTooHot, TomLeeStay}

\* C1: whenever the readings satisfy both the first rule (rsi < 35, fear_count
\* >= 2) and the second (rsi < 40, fear_count >= 1) of style A, the verdict
\* rendered is the first rule's, strong buy.
C1_RulePriority ==
  (BuffettRendered /\ StrongBuyRule /\ AccumulateRule) => buffett_card = BuffettBuy

\* rsi = 30 with exactly two fear conditions met has been classified.
C1_Witness ==
  /\ buffett_card = BuffettBuy
  /\ rsi_val = PyFloat(30)
  /\ FearCount = 2

AllUnavailable ==
  /\ vix_val = None /\ rsi_val = None /\ news_val = None
  /\ Unavailable(trends_val)

\* C2: with every indicator unavailable, style A renders a fallback verdict
\* "hold off" (a verdict of its own, none of the four rules') and style B
\* renders "stay invested"; neither raises or renders nothing.
C2_AllUnavailableFallback ==
  (AllUnavailable /\ BuffettRendered /\ TomLeeRendered) =>
     /\ buffett_card \notin BuffettRuleVerdicts \cup {TypeError}
     /\ tomlee_card = TomLeeStay

\* C3: when none of the four ordered rules of style A holds, the verdict is a
\* fifth one, distinct from the neutral-band rule's "wait, no edge".
C3_HoldOffDistinctFromWait ==
  (BuffettRendered /\ ~StrongBuyRule /\ ~AccumulateRule /\ ~NeutralBandRule
     /\ ~OverheatedRule)
    => buffett_card \notin BuffettRuleVerdicts \cup {TypeError}

\* C4: style B renders "buy the dip" exactly when at least two of its four
\* conditions are met; otherwise "too hot" exactly when vix < 14, rsi > 70 and
\* news > 60; otherwise "stay invested".
C4_TomLeeTable ==
  TomLeeRendered =>
    /\ tomlee_card = TomLeeBuy <=> BullishCount >= 2
    /\ tomlee_card = TomLeeTooHot <=> (BullishCount < 2 /\ TooHotRule)
    /\ tomlee_card = TomLeeStay <=> (BullishCount < 2 /\ ~TooHotRule)

\* Every reading exactly at its cutoff has been classified: no condition met.
C4_Witness ==
  /\ tomlee_card = TomLeeStay
  /\ vix_val = PyFloat(22) /\ rsi_val = PyFloat(45)
  /\ trends_val = PyInt(60) /\ news_val = PyInt(50)

\* C5: on every input (a number or None; trends an int, None or the "Rate
\* Limited" string) each classifier returns one verdict of its set and never
\* raises.
C5_ClassifiersTotal ==
  /\ pc # "crashed"
  /\ BuffettRendered => buffett_card \in BuffettVerdicts
  /\ TomLeeRendered => tomlee_card \in TomLeeVerdicts

\* The "Rate Limited" string has reached the overheated rule's trends
\* comparison (rsi > 70 and news > 60 hold) and both verdicts are rendered.
C5_Witness ==
  /\ trends_val = RateLimited
  /\ Above(rsi_val, 70) /\ Above(news_val, 60)
  /\ BuffettRendered /\ TomLeeRendered

\* C6: with rsi exactly 35 style A never renders strong buy and renders
\* accumulate whenever a fear condition is met; with rsi exactly 40 it never
\* renders accumulate, and in the neutral bands of vix and news renders wait.
C6_BoundaryExactness ==
  BuffettRendered =>
    /\ Within(rsi_val, 35, 35) =>
         /\ buffett_card # BuffettBuy
         /\ FearCount >= 1 => buffett_card = BuffettAccumulate
    /\ Within(rsi_val, 40, 40) =>
         /\ buffett_card # BuffettAccumulate
         /\ (Above(vix_val, 16) /\ Below(vix_val, 28) /\ Within(news_val, 35, 65))
              => buffett_card = BuffettWait

\* rsi exactly 35 with all three fear conditions met has been classified.
C6_Witness ==
  /\ rsi_val = PyFloat(35)
  /\ FearCount = 3
  /\ buffett_card = BuffettAccumulate

\* Position of a program counter value in the script.
Stage(p) ==
  CASE p = "fetch_vix" -> 1
    [] p = "fetch_rsi" -> 2
    [] p = "fetch_trends" -> 3
    [] p = "fetch_news" -> 4
    [] p = "fetch_reddit" -> 5
    [] p = "render_cards" -> 6
    [] p = "render_buffett" -> 7
    [] p = "render_tomlee" -> 8
    [] p = "render_memes" -> 9
    [] p = "done" -> 10
    [] OTHER -> 0

FetchStage(p) ==
  CASE p = "vix" -> 1 [] p = "rsi" -> 2 [] p = "trends" -> 3 [] p = "news" -> 4
    [] OTHER -> 5

\* The value a failed fetch of provider p leaves.
UnavailableValue(p) ==
  CASE p = "vix" -> vix_val = None
    [] p = "rsi" -> rsi_val = None
    [] p = "trends" -> trends_val \in {None, RateLimited}
    [] p = "news" -> news_val = None /\ news_lbl \in {"No API Key", "Rate Limited", "Error"}
    [] OTHER -> memes = <<>>

FailureIsolated ==
  /\ pc # "crashed"
  /\ \A p \in Providers :
       /\ attempts[p] = (IF Stage(pc) > FetchStage(p) THEN 1 ELSE 0)
       /\ failed[p] => UnavailableValue(p)
  /\ pc = "done" =>
       /\ buffett_card \in BuffettVerdicts
       /\ tomlee_card \in TomLeeVerdicts

KnownTickers ==
  {<<"G", "M", "E">>, <<"A", "A", "P", "L">>, <<"T", "S", "L", "A">>,
   <<"N", "V", "D", "A">>, <<"A", "M", "C">>, <<"B", "B">>, <<"P", "L", "T", "R">>}

\* C8: every symbol the extractor returns is a known ticker and is not an
\* excluded acronym.
C8_KnownTickersOnly ==
  \A i \in 1..Len(memes) : memes[i][1] \in KnownTickers /\ memes[i][1] \notin exclude

\* The tokens kept from the whole batch, in encounter order.
BatchMentions == Mentions(feed.posts, Len(feed.posts))

Occurrences(M, tok) == Cardinality({k \in 1..Len(M) : M[k] = tok})

FirstEncounter(M, tok) ==
  CHOOSE k \in 1..Len(M) : M[k] = tok /\ \A j \in 1..(k - 1) : M[j] # tok

Extracted == Stage(pc) > 5 /\ feed.status = "ok"

\* The ranked list r against the batch's kept tokens M.
RankedTopOf(r, M) ==
  /\ Len(r) <= 5
  /\ \A i \in 1..Len(r) : r[i][2] = Occurrences(M, r[i][1])
  /\ \A i, j \in 1..Len(r) :
       i < j => /\ r[i][2] >= r[j][2]
                /\ r[i][2] = r[j][2] =>
                     FirstEncounter(M, r[i][1]) < FirstEncounter(M, r[j][1])
  /\ \A k \in 1..Len(M) :
       (\A i \in 1..Len(r) : r[i][1] # M[k]) =>
          \A i \in 1..Len(r) : Occurrences(M, M[k]) <= r[i][2]

\* C9: the extractor's result has at most 5 entries, each with the number of
\* occurrences of its token in the batch, ordered by non-increasing count,
\* equal counts in first-encountered order, no left-out token counted higher
\* than an emitted one, and an empty batch gives an empty list.
C9_RankedTopFive ==
  Extracted =>
    /\ \A M \in {BatchMentions} : RankedTopOf(memes, M)
    /\ feed.posts = <<>> => memes = <<>>

\* A batch with more than five distinct tokens and a tie among the emitted
\* ones has been ranked and cut to five.
C9_Witness ==
  /\ Extracted
  /\ Len(memes) = 5
  /\ \E M \in {BatchMentions} : Cardinality({M[k] : k \in 1..Len(M)}) > 5
  /\ memes[1][2] > memes[2][2]
  /\ memes[2][2] = memes[3][2]

\* C10: what the radar shows after a rate-limit response of the social-post
\* provider differs from what it shows after an HTTP 500 of that provider,
\* and the mention list is empty with no exception.
C10_RateLimitDistinct ==
  (pc = "done" /\ feed.status = "rate_limited") =>
     /\ memes = <<>>
     /\ meme_card #
          MemeCard(fetch_reddit_meme_tickers(ServerErrorResponse, RedditLimit).value, <<>>)

====
